---- MODULE Spec2Model ----
(***************************************************************************)
(* Model of src/main.py, the Streamlit "Dr-Patient Bridge": a message      *)
(* store (SQLite table messages), the text-generation oracle with its      *)
(* two-tier request strategy, the sidebar's summary request, the room's    *)
(* history listing and the input handler with its audio deduplication.     *)
(*                                                                         *)
(* One script run (Streamlit executes the file top to bottom on every      *)
(* interaction) is one action: sidebar (lines 114-168), history listing    *)
(* (173-182), logic handler (222-265).  The network and the storage engine *)
(* are the environment: their outcomes are drawn by the action.            *)
(***************************************************************************)
EXTENDS Integers, Sequences, FiniteSets

VARIABLES
    messages,              \* table messages, in rowid order (lines 28-40)
    last_processed_audio,  \* st.session_state.last_processed_audio (20-21)
    role,                  \* st.session_state.role (18-19, 144)
    clock,                 \* the store's CURRENT_TIMESTAMP, in seconds (38)
    df_msgs,               \* the listing read at line 182 of the last run
    summary,               \* what the sidebar's summary button did (156-168)
    run,                   \* the last script run: its inputs and what it did
    prev                   \* the script run before it (kept where d.history)

vars == <<messages, last_processed_audio, role, clock, df_msgs, summary, run, prev>>

---------------------------------------------------------------------------
(* Bounds of the model *)

\* rows the table may hold in the runs of SpecChat, SpecFault, SpecDedup,
\* SpecOracle, SpecSentinel and SpecStore
ChatMaxMsgs == 2
FaultMaxMsgs == 2
DedupMaxMsgs == 2
OracleMaxMsgs == 1
SentinelMaxMsgs == 1
StoreMaxMsgs == 2

\* seconds the store's clock may advance
MaxClock == 1

---------------------------------------------------------------------------
(* Values *)

\* Python's None
None == "None"

\* line 88 and line 244: the placeholder of an audio-only message
Sentinel == "[Audio Message Attached]"

\* Python truthiness of an optional string (lines 157, 222, 223, 243, 249, 254)
Truthy(x) == x # None /\ x # ""

\* line 79
Err402 == "Error: Free Tier Limit Reached (402). Try a new HF Token."

\* line 81, for a status that is neither 200 nor 402
ErrApi == "API Error 500: body"

\* line 84
ErrCritical == "Critical Error: detail"

\* line 143: the radio's options
Roles == {"Doctor", "Patient"}

\* line 146: the selectbox's options
Languages == {"English", "Spanish", "French", "Hindi", "Mandarin"}

\* outcomes of the primary request (lines 56-62): a completion, or any exception
PrimaryOutcomes == {"ok", "exc"}

\* outcomes of the raw HTTP request (lines 74-84): status 200, 402, another
\* status, or any exception (the request's, or a body without the content)
SecondaryOutcomes == {"200", "402", "500", "exc"}

StorageOutcomes == {"ok", "fail"}

---------------------------------------------------------------------------
(* The oracle *)

\* the two-tier request without the inner try: the raw request's exception
\* reaches the caller
get_llm_response_noInnerTry(msgs, api_key, net) ==
    IF net.primary = "ok"
    THEN [text |-> net.content, raised |-> FALSE,
          calls |-> <<[path |-> "primary", outcome |-> "ok"]>>]
    ELSE [text |-> CASE net.secondary = "200" -> net.content
                     [] net.secondary = "402" -> Err402
                     [] net.secondary = "exc" -> None
                     [] OTHER -> ErrApi,
          raised |-> (net.secondary = "exc"),
          calls |-> <<[path |-> "primary", outcome |-> "exc"],
                      [path |-> "fallback", outcome |-> net.secondary]>>]

\* the raw request attempted after the primary whatever the primary did
get_llm_response_alwaysFallback(msgs, api_key, net) ==
    [text |-> CASE net.secondary = "200" -> net.content
                [] net.secondary = "402" -> Err402
                [] net.secondary = "exc" -> ErrCritical
                [] OTHER -> ErrApi,
     raised |-> FALSE,
     calls |-> <<[path |-> "primary", outcome |-> net.primary],
                 [path |-> "fallback", outcome |-> net.secondary]>>]

\* lines 50-84: text is the returned string, calls the requests made, in
\* order, with what each did; raised says whether an exception left the call
get_llm_response(msgs, api_key, net) ==
    IF net.primary = "ok"
    THEN [text |-> net.content, raised |-> FALSE,
          calls |-> <<[path |-> "primary", outcome |-> "ok"]>>]
    ELSE [text |-> CASE net.secondary = "200" -> net.content
                     [] net.secondary = "402" -> Err402
                     [] net.secondary = "exc" -> ErrCritical
                     [] OTHER -> ErrApi,
          raised |-> FALSE,
          calls |-> <<[path |-> "primary", outcome |-> "exc"],
                      [path |-> "fallback", outcome |-> net.secondary]>>]

\* the translation without the placeholder's early return
translate_text_noPassthrough(text, source_role, target_lang, api_key, net) ==
    get_llm_response([system |-> <<"interpreter", source_role, target_lang>>,
                      user |-> text], api_key, net)

\* lines 86-103
translate_text(text, source_role, target_lang, api_key, net) ==
    IF text = Sentinel
    THEN [text |-> text, raised |-> FALSE, calls |-> <<>>]
    ELSE get_llm_response([system |-> <<"interpreter", source_role, target_lang>>,
                           user |-> text], api_key, net)

\* lines 105-111
generate_summary(history_text, api_key, net) ==
    get_llm_response([system |-> <<"summarize">>, user |-> history_text],
                     api_key, net)

---------------------------------------------------------------------------
(* The message store *)

\* lines 259-263: the row the INSERT adds; the store assigns id (AUTOINCREMENT,
\* no row is ever deleted) and timestamp (DEFAULT CURRENT_TIMESTAMP)
InsertMessage(msgs, room_id, source_role, original_text, translated_text, target_lang, has_audio, audio_bytes, now) ==
    Append(msgs, [id |-> Len(msgs) + 1,
                  room_id |-> room_id,
                  role |-> source_role,
                  original_text |-> original_text,
                  translated_text |-> translated_text,
                  target_lang |-> target_lang,
                  has_audio |-> has_audio,
                  audio_bytes |-> audio_bytes,
                  timestamp |-> now])

\* a SELECT with the WHERE clause left out
SelectByRoom_noFilter(msgs, room_id) ==
    {msgs[i] : i \in DOMAIN msgs}

\* lines 161 and 174: ... FROM messages WHERE room_id = ?
SelectByRoom(msgs, room_id) ==
    {msgs[i] : i \in {j \in DOMAIN msgs : msgs[j].room_id = room_id}}

\* the sequences that list every row of the set rows once
Orderings(rows) ==
    {f \in [1..Cardinality(rows) -> rows] : \A r \in rows : \E i \in DOMAIN f : f[i] = r}

\* line 182: ORDER BY timestamp ASC. SQL leaves the order of rows with equal
\* keys to the engine: every order of the ties is a possible result
OrderByTimestamp(rows) ==
    {f \in Orderings(rows) :
        \A i, j \in DOMAIN f : i < j => f[i].timestamp <= f[j].timestamp}

\* line 163: the transcript handed to the summary, one "role: text" per row
FullText(df) ==
    [i \in DOMAIN df |-> <<df[i].role, df[i].original_text>>]

---------------------------------------------------------------------------
(* The sidebar's summary button, lines 156-168 *)

\* the button not pressed
NoSummary ==
    [status |-> "none", rows |-> <<>>, transcript |-> <<>>, text |-> None,
     calls |-> <<>>]

\* the summary requested whether or not the room has rows
SummaryGuard_noEmptyCheck(df) ==
    TRUE

\* line 162: if not df.empty
SummaryGuard(df) ==
    Len(df) > 0

\* lines 157-168, for the rows df the query of line 161 returned
SummaryButton(api_key, df, net) ==
    IF ~Truthy(api_key)
    THEN [NoSummary EXCEPT !.status = "no_key"]
    ELSE IF SummaryGuard(df)
         THEN LET r == generate_summary(FullText(df), api_key, net)
              IN  [status |-> IF r.raised THEN "fault" ELSE "shown",
                   rows |-> df, transcript |-> FullText(df), text |-> r.text,
                   calls |-> r.calls]
         ELSE [NoSummary EXCEPT !.status = "no_history"]

---------------------------------------------------------------------------
(* The logic handler, lines 222-265 *)

\* the fingerprint check left out: every delivered clip is new
IsNewAudio_noDedup(audio_value, fp) ==
    audio_value # None

\* lines 233 and 237
IsNewAudio(audio_value, fp) ==
    audio_value # None /\ fp # audio_value

\* the flag set for every delivered clip, new or not
has_audio_flag_anyClip(audio_value, fp) ==
    audio_value # None

\* lines 229 and 239
has_audio_flag(audio_value, fp) ==
    IsNewAudio(audio_value, fp)

\* lines 228 and 238
audio_data(audio_value, fp) ==
    IF IsNewAudio(audio_value, fp) THEN audio_value ELSE None

\* lines 227, 243-244 and 249-250
current_text(user_input, audio_value, fp) ==
    IF Truthy(user_input) THEN user_input
    ELSE IF IsNewAudio(audio_value, fp) THEN Sentinel
    ELSE ""

\* lines 230, 241, 246 and 251
should_save(user_input, audio_value, fp) ==
    Truthy(user_input) \/ IsNewAudio(audio_value, fp)

\* line 240: the fingerprint after the audio block
MarkProcessed(audio_value, fp) ==
    IF IsNewAudio(audio_value, fp) THEN audio_value ELSE fp

\* the credential check left out
HasCredential_noCheck(api_key) ==
    TRUE

\* lines 157 and 223
HasCredential(api_key) ==
    Truthy(api_key)

\* lines 222-265 for the widgets' values in, the fingerprint fp, the table msgs
\* and the store's time now; net and storage are what the network and the
\* storage engine do during this run
LogicHandler(in, net, storage, fp, msgs, now) ==
    LET same == [messages |-> msgs, last_processed_audio |-> fp,
                 outcome |-> "idle", current_text |-> "", trace |-> <<>>,
                 calls |-> <<>>, translated |-> None]
        text == current_text(in.text, in.audio, fp)
        tr == translate_text(text, in.role, in.lang, in.key, net)
        marked == [same EXCEPT !.last_processed_audio = MarkProcessed(in.audio, fp),
                               !.current_text = text]
    IN  IF ~(Truthy(in.text) \/ in.audio # None)
        THEN same
        ELSE IF ~HasCredential(in.key)
        THEN [same EXCEPT !.outcome = "config_error"]
        ELSE IF ~(should_save(in.text, in.audio, fp) /\ Truthy(text))
        THEN [marked EXCEPT !.outcome = "dropped"]
        ELSE IF tr.raised
        THEN [marked EXCEPT !.outcome = "oracle_fault",
                            !.trace = <<"translate">>, !.calls = tr.calls]
        ELSE IF storage = "fail"
        THEN [marked EXCEPT !.outcome = "storage_error",
                            !.trace = <<"translate", "insert">>,
                            !.calls = tr.calls, !.translated = tr.text]
        ELSE [marked EXCEPT !.outcome = "saved",
                            !.trace = <<"translate", "insert", "commit", "rerun">>,
                            !.calls = tr.calls, !.translated = tr.text,
                            !.messages = InsertMessage(msgs, in.room, in.role, text,
                                            tr.text, in.lang,
                                            has_audio_flag(in.audio, fp),
                                            audio_data(in.audio, fp), now)]

---------------------------------------------------------------------------
(* One script run *)

\* the state of a session before its first script run (lines 18-21, 44)
NoRun ==
    [button |-> FALSE, key |-> "", room |-> "Room-1", role |-> "Doctor",
     lang |-> "English", text |-> None, audio |-> None,
     fp_before |-> None, n_before |-> 0, outcome |-> "idle",
     current_text |-> "", trace |-> <<>>, calls |-> <<>>, translated |-> None]

Init ==
    /\ messages = <<>>
    /\ last_processed_audio = None
    /\ role = "Doctor"
    /\ clock = 0
    /\ df_msgs = <<>>
    /\ summary = NoSummary
    /\ run = NoRun
    /\ prev = NoRun

\* the widgets' values of one run, drawn from the sets of d
Inputs(d) ==
    [key : d.keys, room : d.rooms, role : d.roles, lang : d.langs,
     text : d.texts, audio : d.audios]

\* what the text-generation service does during one run
Network(d) ==
    [primary : d.primaries, secondary : d.secondaries, content : d.contents]

\* lines 114-265, once: the sidebar with its summary button (pressed or not),
\* the listing of the room, the logic handler; the table holds at most d.cap rows
Script(button, in, net, storage, d) ==
    LET h == LogicHandler(in, net, storage, last_processed_audio, messages, clock)
    IN  /\ Len(h.messages) <= d.cap
        /\ role' = in.role
        /\ IF button
           THEN \E df \in Orderings(SelectByRoom(messages, in.room)) :
                    summary' = SummaryButton(in.key, df, net)
           ELSE summary' = NoSummary
        /\ df_msgs' \in OrderByTimestamp(SelectByRoom(messages, in.room))
        /\ messages' = h.messages
        /\ last_processed_audio' = h.last_processed_audio
        /\ run' = [button |-> button, key |-> in.key, room |-> in.room,
                   role |-> in.role, lang |-> in.lang, text |-> in.text,
                   audio |-> in.audio, fp_before |-> last_processed_audio,
                   n_before |-> Len(messages), outcome |-> h.outcome,
                   current_text |-> h.current_text, trace |-> h.trace,
                   calls |-> h.calls, translated |-> h.translated]
        /\ prev' = IF d.history THEN run ELSE prev
        /\ UNCHANGED clock

\* a run started by the chat input, the recorder or another widget
ChatInput(d) ==
    \E in \in Inputs(d), net \in Network(d), storage \in d.storages :
        Script(FALSE, in, net, storage, d)

\* a run started by the summary button: the chat input delivers nothing
SummaryClick(d) ==
    \E in \in Inputs(d), net \in Network(d), storage \in d.storages :
        /\ in.text = None
        /\ Script(TRUE, in, net, storage, d)

\* a second passes on the store's clock
Tick ==
    /\ clock < MaxClock
    /\ clock' = clock + 1
    /\ UNCHANGED <<messages, last_processed_audio, role, df_msgs, summary, run, prev>>

---------------------------------------------------------------------------
(* Specifications: the same script, its inputs and its environment drawn   *)
(* from six sets. The storage engine works (section 4.1 of the             *)
(* specification: append "always succeeds logically" unless the            *)
(* persistence is unavailable) except in SpecFault, where an INSERT may     *)
(* raise.                                                                  *)

\* the handler's decisions: credential, typed text and clip vary
ChatDom ==
    [keys |-> {"", "hf_key"}, rooms |-> {"Room-1"}, roles |-> {"Doctor"},
     langs |-> {"Spanish"}, texts |-> {None, "", "hi"},
     audios |-> {None, "clip1", "clip2"},
     primaries |-> {"ok"}, secondaries |-> {"200"}, contents |-> {"hola"},
     storages |-> {"ok"}, cap |-> ChatMaxMsgs, history |-> FALSE]

NextChat ==
    ChatInput(ChatDom)

SpecChat == Init /\ [][NextChat]_vars

\* as ChatDom, with a storage engine that may fail an INSERT
FaultDom ==
    [keys |-> {"", "hf_key"}, rooms |-> {"Room-1"}, roles |-> {"Doctor"},
     langs |-> {"Spanish"}, texts |-> {None, "hi"},
     audios |-> {None, "clip1", "clip2"},
     primaries |-> {"ok"}, secondaries |-> {"200"}, contents |-> {"hola"},
     storages |-> StorageOutcomes, cap |-> FaultMaxMsgs, history |-> FALSE]

NextFault ==
    ChatInput(FaultDom)

SpecFault == Init /\ [][NextFault]_vars

\* redelivery: as ChatDom, and the run before the last is remembered
DedupDom ==
    [keys |-> {"", "hf_key"}, rooms |-> {"Room-1"}, roles |-> {"Doctor"},
     langs |-> {"Spanish"}, texts |-> {None, "hi"},
     audios |-> {None, "clip1", "clip2"},
     primaries |-> {"ok"}, secondaries |-> {"200"}, contents |-> {"hola"},
     storages |-> {"ok"}, cap |-> DedupMaxMsgs, history |-> TRUE]

NextDedup ==
    ChatInput(DedupDom)

SpecDedup == Init /\ [][NextDedup]_vars

\* the oracle: every outcome of both request paths, for translations and
\* summaries
OracleDom ==
    [keys |-> {"hf_key"}, rooms |-> {"Room-1"}, roles |-> {"Doctor"},
     langs |-> {"Spanish"}, texts |-> {None, "hi"}, audios |-> {None, "clip1"},
     primaries |-> PrimaryOutcomes, secondaries |-> SecondaryOutcomes,
     contents |-> {"hola", "adios"}, storages |-> {"ok"},
     cap |-> OracleMaxMsgs, history |-> FALSE]

NextOracle ==
    \/ ChatInput(OracleDom)
    \/ SummaryClick(OracleDom)

SpecOracle == Init /\ [][NextOracle]_vars

\* the placeholder: both roles, every language, the placeholder typed or
\* produced by an audio-only input
SentinelDom ==
    [keys |-> {"hf_key"}, rooms |-> {"Room-1"}, roles |-> Roles,
     langs |-> Languages, texts |-> {None, "hi", Sentinel},
     audios |-> {None, "clip1"},
     primaries |-> {"ok"}, secondaries |-> {"200"}, contents |-> {"hola"},
     storages |-> {"ok"}, cap |-> SentinelMaxMsgs, history |-> FALSE]

NextSentinel ==
    ChatInput(SentinelDom)

SpecSentinel == Init /\ [][NextSentinel]_vars

\* the store: two rooms, the clock, the listing and the summary's query
StoreDom ==
    [keys |-> {"", "hf_key"}, rooms |-> {"Room-1", "Room-2"}, roles |-> {"Doctor"},
     langs |-> {"Spanish"}, texts |-> {None, "hi"}, audios |-> {None},
     primaries |-> {"ok"}, secondaries |-> {"200"}, contents |-> {"hola"},
     storages |-> {"ok"}, cap |-> StoreMaxMsgs, history |-> FALSE]

NextStore ==
    \/ ChatInput(StoreDom)
    \/ SummaryClick(StoreDom)
    \/ Tick

SpecStore == Init /\ [][NextStore]_vars

---------------------------------------------------------------------------
(* Vocabulary of the properties: what a run r was given and what it added *)

\* r was given typed text
Typed(r) == r.text # None /\ r.text # ""

\* r was given an input: typed text, a clip, or both
InputEvent(r) == Typed(r) \/ r.audio # None

\* r was given a credential
WithCredential(r) == r.key # None /\ r.key # ""

\* r was given a clip other than the one last processed before it
NewClip(r) == r.audio # None /\ r.audio # r.fp_before

\* r was given a clip and no typed text
AudioOnly(r) == ~Typed(r) /\ r.audio # None

\* the number of rows the last run added
Inserted == Len(messages) - run.n_before

\* the newest row
LastRow == messages[Len(messages)]

---------------------------------------------------------------------------
(* Properties checked under SpecDedup *)

\* the run before the last and the last run: two successive input events with
\* the same clip, no typed text, and a credential
TwoSuccessive ==
    /\ AudioOnly(prev) /\ AudioOnly(run)
    /\ run.audio = prev.audio
    /\ WithCredential(prev) /\ WithCredential(run)

\* C1, as stated: two successive audio-only events with the same clip persist
\* exactly one Message between them, and the second event adds no row
C1_ExactlyOnePersisted ==
    TwoSuccessive =>
        /\ Len(messages) = prev.n_before + 1
        /\ Len(messages) = run.n_before

\* C1, amended: of two successive audio-only events with the same clip, the
\* second adds no row and changes neither the table nor the fingerprint; the
\* first adds exactly one row when its clip differs from the one last
\* processed before it and the insert is not aborted by the storage engine,
\* and none otherwise
C1_AtMostOnePersisted ==
    TwoSuccessive =>
        /\ Len(messages) = run.n_before
        /\ run.outcome = "dropped"
        /\ last_processed_audio = run.fp_before
        /\ Len(messages) = prev.n_before +
               (IF NewClip(prev) /\ prev.outcome # "storage_error" THEN 1 ELSE 0)

\* a new clip was saved by the first event and dropped by the second
C1_Witness ==
    /\ TwoSuccessive
    /\ NewClip(prev) /\ prev.outcome = "saved"
    /\ Len(messages) = prev.n_before + 1
    /\ LastRow.audio_bytes = run.audio

\* C6: a run given an input and no credential is rejected with the
\* configuration error, adds no row, leaves the table and the fingerprint as
\* they were and makes no oracle call; with the session's state untouched the
\* next run is handled as if the rejected one had not happened
C6_NoCredentialNoPersistence ==
    [][(InputEvent(run') /\ ~WithCredential(run'))
         => /\ messages' = messages
            /\ last_processed_audio' = last_processed_audio
            /\ run'.outcome = "config_error"
            /\ run'.calls = <<>>
            /\ run'.trace = <<>>]_vars

\* an input with typed text and a new clip was rejected for want of a
\* credential, and the same input was saved by the next run, with one
C6_Witness ==
    /\ prev.outcome = "config_error"
    /\ Typed(prev) /\ NewClip(prev)
    /\ WithCredential(run)
    /\ run.text = prev.text /\ run.audio = prev.audio
    /\ run.fp_before = prev.fp_before
    /\ run.outcome = "saved"

---------------------------------------------------------------------------
(* Properties checked under SpecChat *)

\* C2: every run adds zero or one row; a run given no input or no credential
\* adds none, and a run given an input and a credential follows the decision
\* table, where a clip is new when it differs from the one last processed
C2_DecisionTable ==
    /\ Inserted \in {0, 1}
    /\ ~(InputEvent(run) /\ WithCredential(run)) => Inserted = 0
    /\ (InputEvent(run) /\ WithCredential(run)) =>
        /\ (Typed(run) /\ NewClip(run)) =>
              /\ Inserted = 1
              /\ LastRow.original_text = run.text
              /\ LastRow.has_audio = TRUE
              /\ LastRow.audio_bytes = run.audio
        /\ (Typed(run) /\ ~NewClip(run)) =>
              /\ Inserted = 1
              /\ LastRow.original_text = run.text
              /\ LastRow.has_audio = FALSE
              /\ LastRow.audio_bytes = None
        /\ (~Typed(run) /\ NewClip(run)) =>
              /\ Inserted = 1
              /\ LastRow.original_text = Sentinel
              /\ LastRow.has_audio = TRUE
              /\ LastRow.audio_bytes = run.audio
        /\ (~Typed(run) /\ ~NewClip(run)) => Inserted = 0

\* typed text arrived with a redelivered clip and was saved without it
C2_Witness ==
    /\ Typed(run) /\ run.audio # None /\ run.audio = run.fp_before
    /\ WithCredential(run)
    /\ run.outcome = "saved"
    /\ \E i \in 1..run.n_before : messages[i].audio_bytes = run.audio

---------------------------------------------------------------------------
(* Properties checked under SpecFault *)

\* C10, as stated: whenever last_processed_audio is set, the table holds a row
\* carrying that clip
C10_MarkedImpliesSaved ==
    last_processed_audio # None =>
        \E i \in DOMAIN messages : messages[i].audio_bytes = last_processed_audio

---------------------------------------------------------------------------
(* Properties checked under SpecOracle *)

\* the texts the oracle can return: a completion, or one of the three error
\* strings of lines 79, 81 and 84
OracleTexts == OracleDom.contents \cup {Err402, ErrApi, ErrCritical}

\* what the last request of a call did
LastOutcome(calls) == calls[Len(calls)].outcome

\* r was given an input that the decision table persists
Persistable(r) ==
    InputEvent(r) /\ WithCredential(r) /\ (Typed(r) \/ NewClip(r))

\* C3: a persistable input is saved whatever the translation call did: one
\* row is added, after the translation returned, its translated_text is what
\* the call returned (the error string of the failure when both paths or the
\* fallback failed), and no row has a null translated_text
C3_TranslationNeverBlocksPersistence ==
    /\ \A i \in DOMAIN messages : messages[i].translated_text # None
    /\ Persistable(run) =>
        /\ run.outcome = "saved"
        /\ Inserted = 1
        /\ LastRow.translated_text = run.translated
        /\ \E i, j \in DOMAIN run.trace :
              /\ i < j /\ run.trace[i] = "translate" /\ run.trace[j] = "insert"
              /\ \A k \in 1..i : run.trace[k] # "insert"
        /\ run.calls # <<>> =>
              /\ LastOutcome(run.calls) \in {"ok", "200"} =>
                     LastRow.translated_text \in OracleDom.contents
              /\ LastOutcome(run.calls) = "402" => LastRow.translated_text = Err402
              /\ LastOutcome(run.calls) = "500" => LastRow.translated_text = ErrApi
              /\ LastOutcome(run.calls) = "exc" => LastRow.translated_text = ErrCritical

\* both request paths raised, and the typed text was saved with the error
\* string as its translation
C3_Witness ==
    /\ Typed(run) /\ run.outcome = "saved"
    /\ Len(run.calls) = 2 /\ run.calls[1].outcome = "exc" /\ run.calls[2].outcome = "exc"
    /\ LastRow.original_text = run.text
    /\ LastRow.translated_text = ErrCritical

\* the requests of one call to the oracle: the primary once and first; the
\* fallback once, second, and exactly when the primary raised
TwoTier(calls) ==
    /\ Len(calls) \in {1, 2}
    /\ calls[1].path = "primary"
    /\ Len(calls) = 2 <=> calls[1].outcome = "exc"
    /\ Len(calls) = 2 => calls[2].path = "fallback"
    /\ calls[1].outcome \in PrimaryOutcomes
    /\ Len(calls) = 2 => calls[2].outcome \in SecondaryOutcomes

\* C9: every call to the oracle, for a translation or for a summary, makes
\* its requests in the two-tier order, returns a text for every outcome of
\* the two paths, and raises nothing to its caller; a typed text other than
\* the placeholder and a summary of a room with rows do call the oracle
C9_TwoTierNeverRaises ==
    /\ run.outcome # "oracle_fault"
    /\ summary.status # "fault"
    /\ run.calls # <<>> => TwoTier(run.calls) /\ run.translated \in OracleTexts
    /\ summary.calls # <<>> => TwoTier(summary.calls) /\ summary.text \in OracleTexts
    /\ (Typed(run) /\ run.text # Sentinel /\ WithCredential(run)) => run.calls # <<>>
    /\ summary.status = "shown" => summary.calls # <<>>

\* a summary whose primary request raised and whose fallback got status 402:
\* the error string is the summary shown
C9_Witness ==
    /\ summary.status = "shown"
    /\ Len(summary.calls) = 2
    /\ summary.calls[1].outcome = "exc" /\ summary.calls[2].outcome = "402"
    /\ summary.text = Err402

---------------------------------------------------------------------------
(* Properties checked under SpecSentinel *)

\* C8: whenever the text handed to the translation is the placeholder, for
\* any role and language, the translation is the placeholder and no request
\* is made; an audio-only input with a new clip is saved with the placeholder
\* as both texts, and every row whose original_text is the placeholder has it
\* as translated_text
C8_SentinelPassthrough ==
    /\ (run.trace # <<>> /\ run.current_text = Sentinel) =>
          run.translated = Sentinel /\ run.calls = <<>>
    /\ (AudioOnly(run) /\ NewClip(run) /\ WithCredential(run)) =>
          /\ run.outcome = "saved"
          /\ run.current_text = Sentinel
          /\ LastRow.original_text = Sentinel
          /\ LastRow.translated_text = LastRow.original_text
    /\ \A i \in DOMAIN messages :
          messages[i].original_text = Sentinel =>
              messages[i].translated_text = messages[i].original_text

\* a patient's audio-only message with Hindi as the target language was
\* saved without a request
C8_Witness ==
    /\ AudioOnly(run) /\ run.role = "Patient" /\ run.lang = "Hindi"
    /\ run.outcome = "saved" /\ run.calls = <<>>
    /\ LastRow.has_audio /\ LastRow.role = "Patient" /\ LastRow.target_lang = "Hindi"
    /\ LastRow.translated_text = Sentinel

---------------------------------------------------------------------------
(* Properties checked under SpecStore *)

\* the rows of the last run's room that the table held when the run began
RoomRowsBefore ==
    {messages[k] : k \in {n \in 1..run.n_before : messages[n].room_id = run.room}}

\* the rows a listing df holds
Listed(df) == {df[i] : i \in DOMAIN df}

\* C4, as stated: the listing is in non-decreasing timestamp order, rows with
\* equal timestamps in increasing id order, and so in insertion order
C4_ListingInInsertionOrder ==
    \A i, j \in DOMAIN df_msgs :
        i < j =>
            /\ df_msgs[i].timestamp <= df_msgs[j].timestamp
            /\ df_msgs[i].timestamp = df_msgs[j].timestamp => df_msgs[i].id < df_msgs[j].id
            /\ df_msgs[i].id < df_msgs[j].id

\* C5: the listing of a room, and the rows read for its summary, are exactly
\* the rows inserted with that room_id, each once; the row a run inserts
\* carries the run's room
C5_RoomIsolation ==
    /\ Listed(df_msgs) = RoomRowsBefore
    /\ Len(df_msgs) = Cardinality(RoomRowsBefore)
    /\ \A i \in DOMAIN df_msgs : df_msgs[i].room_id = run.room
    /\ summary.status = "shown" =>
          /\ Listed(summary.rows) = RoomRowsBefore
          /\ Len(summary.rows) = Cardinality(RoomRowsBefore)
          /\ summary.transcript = FullText(summary.rows)
    /\ run.outcome = "saved" => LastRow.room_id = run.room

\* the table held rows of both rooms, and the listing and the summary of one
\* room read only that room's row
C5_Witness ==
    /\ run.n_before = 2
    /\ messages[1].room_id # messages[2].room_id
    /\ Len(df_msgs) = 1 /\ df_msgs[1].room_id = run.room
    /\ summary.status = "shown" /\ Len(summary.rows) = 1
    /\ summary.rows[1].room_id = run.room

\* C7, as stated: a summary request for a room without rows ends in the
\* "no history" outcome and makes no request; the oracle is called only with
\* a credential and a room with rows
C7_EmptyRoomNoHistory ==
    /\ (run.button /\ RoomRowsBefore = {}) =>
          summary.status = "no_history" /\ summary.calls = <<>>
    /\ summary.calls # <<>> => WithCredential(run) /\ RoomRowsBefore # {}

\* C7, amended: a summary request for a room without rows makes no request
\* and ends in the "no history" outcome when a credential is present and in
\* the missing-key error when none is; the oracle is called exactly when the
\* button is pressed with a credential for a room with rows
C7_EmptyRoomNeverSummarised ==
    /\ (run.button /\ RoomRowsBefore = {}) =>
          /\ summary.calls = <<>>
          /\ summary.status = IF WithCredential(run) THEN "no_history" ELSE "no_key"
    /\ summary.calls # <<>> <=>
          (run.button /\ WithCredential(run) /\ RoomRowsBefore # {})

\* with a credential, a summary was requested for a room without rows while
\* the other room had one: "no history", and no request
C7_Witness ==
    /\ run.button /\ WithCredential(run)
    /\ run.n_before > 0 /\ RoomRowsBefore = {}
    /\ summary.status = "no_history" /\ summary.calls = <<>>

====
